---- MODULE Spec2Model ----
(***************************************************************************)
(* Market Complaint Dashboard (src/index.tsx): the ingestion of the two    *)
(* sheet extracts, their reconciliation into allComplaints, the refresh    *)
(* cycles of App.fetchData and the sorted view.                            *)
(*                                                                         *)
(* A JavaScript string is modelled as a sequence of one-character strings, *)
(* so that trimming, splitting, case folding and substring search are      *)
(* computed character by character as the runtime computes them.           *)
(***************************************************************************)
EXTENDS Integers, Sequences, FiniteSets, TLC

\* ------------------------------------------------------------------------
\* Bounds of the model
\* ------------------------------------------------------------------------
MaxCycles == 3
MaxTaskLines == 2
MaxCompletedLines == 2
MaxRecords == 3

\* ------------------------------------------------------------------------
\* String primitives of the runtime
\* ------------------------------------------------------------------------
Quote == "\""
Comma == ","
Newline == "\n"
Slash == "/"

EmptyStr == << >>

\* the characters of the model in UTF-16 code unit order
CharOrder ==
  <<"\t","\n","\r"," ","\"",",","-","/",
    "0","1","2","3","4","5","6","7","8","9",":",
    "A","B","C","D","E","F","G","H","I","J","K","L","M",
    "N","O","P","Q","R","S","T","U","V","W","X","Y","Z",
    "a","b","c","d","e","f","g","h","i","j","k","l","m",
    "n","o","p","q","r","s","t","u","v","w","x","y","z">>

CharCode(c) == CHOOSE i \in 1..Len(CharOrder) : CharOrder[i] = c

UpperCase == <<"A","B","C","D","E","F","G","H","I","J","K","L","M","N","O","P","Q","R","S","T","U","V","W","X","Y","Z">>
LowerCase == <<"a","b","c","d","e","f","g","h","i","j","k","l","m","n","o","p","q","r","s","t","u","v","w","x","y","z">>
Digits == <<"0","1","2","3","4","5","6","7","8","9">>

IsWhite(c) == c \in {" ", "\t", "\n", "\r"}
IsDigit(c) == \E i \in 1..Len(Digits) : Digits[i] = c
DigitVal(c) == (CHOOSE i \in 1..Len(Digits) : Digits[i] = c) - 1

ToLowerChar(c) ==
  IF \E i \in 1..Len(UpperCase) : UpperCase[i] = c
  THEN LowerCase[CHOOSE i \in 1..Len(UpperCase) : UpperCase[i] = c]
  ELSE c

\* String.prototype.toLowerCase
toLowerCase(s) == [i \in 1..Len(s) |-> ToLowerChar(s[i])]

\* String.prototype.includes
includes(s, sub) ==
  \E i \in 0..(Len(s) - Len(sub)) : SubSeq(s, i + 1, i + Len(sub)) = sub

\* String.prototype.trim
RECURSIVE trimStart(_)
trimStart(s) ==
  IF s # << >> /\ IsWhite(Head(s)) THEN trimStart(Tail(s)) ELSE s

RECURSIVE trimEnd(_)
trimEnd(s) ==
  IF s # << >> /\ IsWhite(s[Len(s)]) THEN trimEnd(SubSeq(s, 1, Len(s) - 1)) ELSE s

trim(s) == trimEnd(trimStart(s))

\* String.prototype.split on a one-character separator
RECURSIVE split(_, _)
split(s, sep) ==
  IF \E i \in 1..Len(s) : s[i] = sep
  THEN LET i == CHOOSE k \in 1..Len(s) :
                  s[k] = sep /\ \A j \in 1..(k - 1) : s[j] # sep
       IN  <<SubSeq(s, 1, i - 1)>> \o split(SubSeq(s, i + 1, Len(s)), sep)
  ELSE <<s>>

\* a[i] || '' for a zero-based index i of an array of strings
OrEmpty(a, i) == IF i + 1 <= Len(a) THEN a[i + 1] ELSE EmptyStr

\* s1 < s2 on strings: lexicographic on code units
RECURSIVE StrLess(_, _)
StrLess(a, b) ==
  IF b = << >> THEN FALSE
  ELSE IF a = << >> THEN TRUE
  ELSE IF Head(a) = Head(b) THEN StrLess(Tail(a), Tail(b))
  ELSE CharCode(Head(a)) < CharCode(Head(b))

\* ------------------------------------------------------------------------
\* parseInt(s, 10)
\* ------------------------------------------------------------------------
NaN == [nan |-> TRUE, val |-> 0]
Num(n) == [nan |-> FALSE, val |-> n]

RECURSIVE DigitRun(_)
DigitRun(s) ==
  IF s # << >> /\ IsDigit(Head(s)) THEN <<Head(s)>> \o DigitRun(Tail(s)) ELSE << >>

RECURSIVE DigitsValue(_)
DigitsValue(d) ==
  IF d = << >> THEN 0
  ELSE 10 * DigitsValue(SubSeq(d, 1, Len(d) - 1)) + DigitVal(d[Len(d)])

parseInt(str) ==
  LET s == trimStart(str)
      neg == s # << >> /\ Head(s) = "-"
      body == IF s # << >> /\ Head(s) \in {"-", "+"} THEN Tail(s) ELSE s
      d == DigitRun(body)
  IN  IF d = << >> THEN NaN
      ELSE Num(IF neg THEN 0 - DigitsValue(d) ELSE DigitsValue(d))

\* ------------------------------------------------------------------------
\* Date.UTC and the UTC getters, on the proleptic Gregorian calendar
\* ------------------------------------------------------------------------
\* TimeClip: a Date holds at most 100,000,000 days either side of the epoch
MaxDay == 100000000

\* number of days from 1970-01-01 to the first day of month m (0-based,
\* already within 0..11) of year y
DayFromYearMonth(y, m) ==
  LET yy == IF m <= 1 THEN y - 1 ELSE y
      era == yy \div 400
      yoe == yy - era * 400
      mp == IF m >= 2 THEN m - 2 ELSE m + 10
      doy == (153 * mp + 2) \div 5
      doe == yoe * 365 + (yoe \div 4) - (yoe \div 100) + doy
  IN  era * 146097 + doe - 719468

\* Date.UTC(year, month, day) in days, or MaxDay + 1 for an invalid Date
DateUTC(year, month, day) ==
  LET yr == IF year >= 0 /\ year <= 99 THEN 1900 + year ELSE year
      ym == yr + (month \div 12)
      mn == month % 12
      d == DayFromYearMonth(ym, mn) + day - 1
  IN  IF d > MaxDay \/ d < 0 - MaxDay THEN MaxDay + 1 ELSE d

\* [getUTCFullYear, getUTCMonth, getUTCDate] of the date at day number z
CivilFromDay(z) ==
  LET zz == z + 719468
      era == zz \div 146097
      doe == zz - era * 146097
      yoe == (doe - (doe \div 1460) + (doe \div 36524) - (doe \div 146096)) \div 365
      doy == doe - (365 * yoe + (yoe \div 4) - (yoe \div 100))
      mp == (5 * doy + 2) \div 153
      d == doy - ((153 * mp + 2) \div 5) + 1
      m == IF mp < 10 THEN mp + 2 ELSE mp - 10
      y == yoe + era * 400 + (IF m <= 1 THEN 1 ELSE 0)
  IN  [year |-> y, month |-> m, date |-> d]

\* a Date is held by its day number: getTime() is time * 86400000, which
\* orders dates the same way
NoDate == [isDate |-> FALSE, time |-> 0]

parseDateString(dateString) ==
  IF dateString = EmptyStr THEN NoDate
  ELSE
    LET parts == split(dateString, Slash) IN
    IF Len(parts) # 3 THEN NoDate
    ELSE
      LET day == parseInt(parts[1])
          monthRaw == parseInt(parts[2])
          yearRaw == parseInt(parts[3])
      IN
      IF day.nan \/ monthRaw.nan \/ yearRaw.nan THEN NoDate
      ELSE
        LET month == monthRaw.val - 1
            year == IF yearRaw.val < 100 THEN yearRaw.val + 2000 ELSE yearRaw.val
            z == DateUTC(year, month, day.val)
        IN
        IF z > MaxDay THEN NoDate
        ELSE
          LET c == CivilFromDay(z) IN
          IF c.year = year /\ c.month = month /\ c.date = day.val
          THEN [isDate |-> TRUE, time |-> z]
          ELSE NoDate

\* ------------------------------------------------------------------------
\* Status classifier and the two mappers
\* ------------------------------------------------------------------------
InProgress == <<"i","n","-","p","r","o","g","r","e","s","s">>
Closed == <<"c","l","o","s","e","d">>
\* the status filter that lets every status through
All == <<"a","l","l">>

\* getStatus without the case folding
getStatusCaseSensitive(step) ==
  IF step = EmptyStr THEN InProgress
  ELSE IF includes(step, <<"c","o","m","p","l","e","t","e">>) THEN Closed
  ELSE InProgress

getStatus(step) ==
  IF step = EmptyStr THEN InProgress
  ELSE IF includes(toLowerCase(step), <<"c","o","m","p","l","e","t","e">>) THEN Closed
  ELSE InProgress

RECURSIVE CountQuotes(_)
CountQuotes(s) ==
  IF s = << >> THEN 0
  ELSE (IF Head(s) = Quote THEN 1 ELSE 0) + CountQuotes(Tail(s))

\* line.split(/,(?=(?:(?:[^"]*"){2})*[^"]*$)/): a comma separates fields when
\* the rest of the line after it holds an even number of double quotes
IsSeparator(line, i) ==
  line[i] = Comma /\ CountQuotes(SubSeq(line, i + 1, Len(line))) % 2 = 0

RECURSIVE SplitFields(_)
SplitFields(line) ==
  IF \E i \in 1..Len(line) : IsSeparator(line, i)
  THEN LET i == CHOOSE k \in 1..Len(line) :
                  IsSeparator(line, k) /\ \A j \in 1..(k - 1) : ~IsSeparator(line, j)
       IN  <<SubSeq(line, 1, i - 1)>> \o SplitFields(SubSeq(line, i + 1, Len(line)))
  ELSE <<line>>

\* v.replace(/^"|"$/g, ''): one leading and one trailing double quote go
StripQuotes(v) ==
  LET a == IF v # << >> /\ v[1] = Quote THEN 1 ELSE 0
      b == IF Len(v) > a /\ v[Len(v)] = Quote THEN 1 ELSE 0
  IN  SubSeq(v, 1 + a, Len(v) - b)

CleanValues(line) ==
  LET values == SplitFields(line)
  IN  [i \in 1..Len(values) |-> StripQuotes(trim(values[i]))]

\* csvText.trim().split('\n').slice(1)
DataLines(csvText) == Tail(split(trim(csvText), Newline))

\* dataLines.map(line => cleanValues), before a row becomes a record
ParseRows(csvText) ==
  [i \in 1..Len(DataLines(csvText)) |-> CleanValues(DataLines(csvText)[i])]

NotAvailable == <<"N","/","A">>
OrNA(a, i) == IF OrEmpty(a, i) = EmptyStr THEN NotAvailable ELSE OrEmpty(a, i)

\* the row is rejected (null) when field 0 is empty
RowRejected(cleanValues) == Len(cleanValues) < 1 \/ cleanValues[1] = EmptyStr

NullRow == [id |-> EmptyStr]

TaskRecord(cleanValues) ==
  LET step == OrEmpty(cleanValues, 3) IN
  [ id |-> OrEmpty(cleanValues, 0),
    plannedDate |-> OrEmpty(cleanValues, 1),
    step |-> step,
    stepCode |-> OrEmpty(cleanValues, 5),
    fullName |-> OrEmpty(cleanValues, 6),
    signature |-> OrEmpty(cleanValues, 8),
    contact |-> OrEmpty(cleanValues, 7),
    country |-> OrEmpty(cleanValues, 9),
    improvementPhotoUrl |-> OrEmpty(cleanValues, 10),
    statusLink |-> OrEmpty(cleanValues, 11),
    notes |-> OrNA(cleanValues, 14),
    status |-> getStatus(step),
    equipmentName |-> OrEmpty(cleanValues, 15) ]

CompletedRecord(cleanValues) ==
  [ id |-> OrEmpty(cleanValues, 0),
    fullName |-> OrEmpty(cleanValues, 1),
    signature |-> OrEmpty(cleanValues, 2),
    country |-> OrEmpty(cleanValues, 3),
    equipmentName |-> OrEmpty(cleanValues, 4),
    improvementPhotoUrl |-> OrEmpty(cleanValues, 5),
    status |-> Closed,
    plannedDate |-> EmptyStr,
    step |-> <<"C","l","o","s","e","d">>,
    stepCode |-> EmptyStr,
    contact |-> EmptyStr,
    statusLink |-> EmptyStr,
    notes |-> OrNA(cleanValues, 6) ]

\* the mapped rows without the final filter
KeptRowsUnfiltered(mapped) == mapped

\* .filter(complaint => complaint !== null && !!complaint.id)
KeptRows(mapped) == SelectSeq(mapped, LAMBDA c : c # NullRow /\ c.id # EmptyStr)

parseGoogleSheetCSV(csvText) ==
  LET dataLines == DataLines(csvText)
      mapped == [i \in 1..Len(dataLines) |->
                   LET cleanValues == CleanValues(dataLines[i])
                   IN  IF RowRejected(cleanValues) THEN NullRow
                       ELSE TaskRecord(cleanValues)]
  IN  KeptRows(mapped)

parseCompletedGoogleSheetCSV(csvText) ==
  LET dataLines == DataLines(csvText)
      mapped == [i \in 1..Len(dataLines) |->
                   LET cleanValues == CleanValues(dataLines[i])
                   IN  IF RowRejected(cleanValues) THEN NullRow
                       ELSE CompletedRecord(cleanValues)]
  IN  KeptRows(mapped)

\* ------------------------------------------------------------------------
\* Reconciler (fetchData, after both texts are parsed)
\* ------------------------------------------------------------------------
\* the concatenation without the lookup of the primary ids
ReconcileNoLookup(parsedTasks, parsedCompletedTasks) ==
  parsedTasks \o parsedCompletedTasks

Reconcile(parsedTasks, parsedCompletedTasks) ==
  LET taskIds == {parsedTasks[i].id : i \in 1..Len(parsedTasks)}
      uniqueCompletedTasks ==
        SelectSeq(parsedCompletedTasks, LAMBDA t : t.id \notin taskIds)
  IN  parsedTasks \o uniqueCompletedTasks

SheetNotPublic == <<"g","i","d"," ","m","u","s","t"," ","b","e"," ","a"," ","n","u","m","b","e","r">>

\* ------------------------------------------------------------------------
\* Sort engine (App.sortedTasks)
\* ------------------------------------------------------------------------
Infinity == [inf |-> TRUE, val |-> 0]

\* isNaN(num) ? Infinity : num
IdValue(v) ==
  LET num == parseInt(v) IN IF num.nan THEN Infinity ELSE [inf |-> FALSE, val |-> num.val]

\* x < y on numbers that may be Infinity
NumLess(x, y) == ~x.inf /\ (y.inf \/ x.val < y.val)

\* the last three lines of the comparator
Ordered(less, greater, order) ==
  IF less THEN (IF order = "asc" THEN -1 ELSE 1)
  ELSE IF greater THEN (IF order = "asc" THEN 1 ELSE -1)
  ELSE 0

\* the comparator with the missing date folded into the ordinary comparison
compareTasksDateAsInfinity(a, b, config) ==
  LET key == config.key IN
  IF key = "id"
  THEN Ordered(NumLess(IdValue(a.id), IdValue(b.id)),
               NumLess(IdValue(b.id), IdValue(a.id)), config.order)
  ELSE IF key = "plannedDate"
  THEN LET dateA == parseDateString(a.plannedDate)
           dateB == parseDateString(b.plannedDate)
           valA == IF dateA.isDate THEN [inf |-> FALSE, val |-> dateA.time] ELSE Infinity
           valB == IF dateB.isDate THEN [inf |-> FALSE, val |-> dateB.time] ELSE Infinity
       IN  Ordered(NumLess(valA, valB), NumLess(valB, valA), config.order)
  ELSE Ordered(StrLess(a[key], b[key]), StrLess(b[key], a[key]), config.order)

\* the comparator without the numeric branch for ids
compareTasksIdAsString(a, b, config) ==
  LET key == config.key IN
  IF key = "plannedDate"
  THEN LET dateA == parseDateString(a.plannedDate)
           dateB == parseDateString(b.plannedDate)
       IN  IF ~dateA.isDate THEN 1
           ELSE IF ~dateB.isDate THEN -1
           ELSE Ordered(dateA.time < dateB.time, dateA.time > dateB.time, config.order)
  ELSE Ordered(StrLess(a[key], b[key]), StrLess(b[key], a[key]), config.order)

\* the comparator handed to Array.prototype.sort
compareTasks(a, b, config) ==
  LET key == config.key IN
  IF key = "id"
  THEN LET valA == IdValue(a.id)
           valB == IdValue(b.id)
       IN  Ordered(NumLess(valA, valB), NumLess(valB, valA), config.order)
  ELSE IF key = "plannedDate"
  THEN LET dateA == parseDateString(a.plannedDate)
           dateB == parseDateString(b.plannedDate)
       IN  IF ~dateA.isDate THEN 1
           ELSE IF ~dateB.isDate THEN -1
           ELSE Ordered(dateA.time < dateB.time, dateA.time > dateB.time, config.order)
  ELSE Ordered(StrLess(a[key], b[key]), StrLess(b[key], a[key]), config.order)

IndexPermutations(n) ==
  {p \in [1..n -> 1..n] : \A i, j \in 1..n : i # j => p[i] # p[j]}

\* Array.prototype.sort(comparefn) is a stable sort where the comparator is
\* consistent; where it is not (two records without a date each compare as
\* greater than the other) the order of such a pair is implementation-defined,
\* so every order that no consistent answer of the comparator contradicts is
\* a possible outcome.
SortOutcomes(list, config) ==
  LET n == Len(list)
      Fits(p) ==
        \A i, j \in 1..n : i < j =>
          LET x == list[p[i]]
              y == list[p[j]]
              xy == compareTasks(x, y, config)
              yx == compareTasks(y, x, config)
          IN  /\ ~(yx < 0 /\ xy > 0)
              /\ (xy = 0 /\ yx = 0) => p[i] < p[j]
  IN  {[i \in 1..n |-> list[p[i]]] : p \in {q \in IndexPermutations(n) : Fits(q)}}

\* ------------------------------------------------------------------------
\* Sheet texts the fetches can return
\* ------------------------------------------------------------------------
RECURSIVE Join(_, _)
Join(parts, sep) ==
  IF parts = << >> THEN << >>
  ELSE IF Len(parts) = 1 THEN parts[1]
  ELSE parts[1] \o <<sep>> \o Join(Tail(parts), sep)

\* a sheet text: one header line followed by the data lines
SheetText(header, dataLines) == Join(<<header>> \o dataLines, Newline)

TasksHeader == <<"I","D",",","P","l","a","n","n","e","d",",",",","S","t","e","p">>
CompletedHeader == <<"I","D",",","N","a","m","e">>

TaskLine1 == <<"1",",","0","1","/","0","1","/","2","4",",",",","C","o","m","p","l","e","t","e",",",",","C","1",",","A","l",",","p","h",",","y","e","s",",","i","n","d","i","a",",",",",",",",",",","L","e","a","k",",","M","i","x","e","r">>
TaskLine2 == <<"2",",",",",",","C","O","M","P","L","E","T","E","D">>
TaskLine3 == <<"1">>
TaskLine4 == <<",","0","5","/","0","5","/","2","4",",",",","C","o","m","p","l","e","t","e">>
TaskLine5 == <<" ","\"","3","\""," ",",","\"","a",",","b","\"",",",",","P","e","n","d","i","n","g">>
TaskLine6 == <<"\"","\"",",","x">>

CompletedLine1 == <<"1",",","B","o",",","y","e","s",",","I","n","d","i","a",",","M","i","x","e","r",",",",","L","e","a","k">>
CompletedLine2 == <<"4",",","C","y">>
CompletedLine3 == <<",","D","i">>
CompletedLine4 == <<"4",",","E","d",",",",","\"","a",",","b","\"">>

TaskLinePool == {TaskLine1, TaskLine2, TaskLine3, TaskLine4, TaskLine5, TaskLine6}
CompletedLinePool == {CompletedLine1, CompletedLine2, CompletedLine3, CompletedLine4}

SeqsUpTo(S, n) == UNION {[1..k -> S] : k \in 0..n}

TasksTextPool == {SheetText(TasksHeader, ls) : ls \in SeqsUpTo(TaskLinePool, MaxTaskLines)}
CompletedTextPool ==
  {SheetText(CompletedHeader, ls) : ls \in SeqsUpTo(CompletedLinePool, MaxCompletedLines)}

\* what the sheet endpoint answers in place of CSV when the sheet is not public
ErrorPageText == <<"E","r","r","o","r",":"," ","g","i","d"," ","m","u","s","t"," ","b","e"," ","a"," ","n","u","m","b","e","r">>

TasksTextA == SheetText(TasksHeader, <<TaskLine1, TaskLine2>>)
CompletedTextA == SheetText(CompletedHeader, <<CompletedLine1, CompletedLine2>>)

TasksResponses == {TasksTextA, ErrorPageText}
CompletedResponses == {CompletedTextA, ErrorPageText}

\* ------------------------------------------------------------------------
\* State of App
\* ------------------------------------------------------------------------
VARIABLES
  allComplaints,          \* useState<Complaint[]>([])
  loading,                \* useState(true)
  isRefreshing,           \* useState(false)
  error,                  \* useState<string | null>(null)
  searchTerm,
  selectedCountry,
  selectedComplaintType,
  sortConfig,             \* useState({key: 'id', order: 'asc'})
  lastRefresh,            \* useState<Date | null>(null): count of refreshes, 0 for null
  expandedRowId,
  statusFilter,
  mounted,                \* the mount effect has run (interval installed)
  cycles,                 \* the invocations of fetchData, in start order
  csv,                    \* the two texts handed to the ingestion pipeline
  parsedTasks,            \* fetchData's local parsedTasks
  parsedCompletedTasks,   \* fetchData's local parsedCompletedTasks
  stage,                  \* position in the ingestion pipeline
  rows,                   \* the cleanValues of the data lines of csv.tasks
  dateString,             \* the argument handed to parseDateString
  parsedDate              \* what parseDateString returned for it

vars == <<allComplaints, loading, isRefreshing, error, searchTerm, selectedCountry,
          selectedComplaintType, sortConfig, lastRefresh, expandedRowId, statusFilter,
          mounted, cycles, csv, parsedTasks, parsedCompletedTasks, stage,
          rows, dateString, parsedDate>>

filterVars == <<searchTerm, selectedCountry, selectedComplaintType, statusFilter>>
unitVars == <<rows, dateString, parsedDate>>
pipelineVars == <<csv, parsedTasks, parsedCompletedTasks, stage, unitVars>>

NoError == << >>
NoRow == <<"null">>

\* setError(`Failed to fetch data. ${message}`)
FailedToFetch(message) == <<"Failed to fetch data. ", message>>

HeaderKeys ==
  {"id", "step", "fullName", "country", "notes", "equipmentName", "plannedDate",
   "improvementPhotoUrl", "statusLink"}

\* the useState initial values
InitApp ==
  /\ allComplaints = << >>
  /\ loading = TRUE
  /\ isRefreshing = FALSE
  /\ error = NoError
  /\ searchTerm = EmptyStr
  /\ selectedCountry = EmptyStr
  /\ selectedComplaintType = EmptyStr
  /\ sortConfig = [key |-> "id", order |-> "asc"]
  /\ lastRefresh = 0
  /\ expandedRowId = NoRow
  /\ statusFilter = All

Init ==
  /\ InitApp
  /\ mounted = FALSE
  /\ cycles = << >>
  /\ csv = [tasks |-> EmptyStr, completed |-> EmptyStr]
  /\ parsedTasks = << >>
  /\ parsedCompletedTasks = << >>
  /\ stage = "idle"
  /\ rows = << >>
  /\ dateString = EmptyStr
  /\ parsedDate = NoDate

\* useMemo over [allComplaints, sortConfig]: the values the sorted copy can take
sortedTasks == SortOutcomes(allComplaints, sortConfig)

\* ------------------------------------------------------------------------
\* Title case, the selector lists and the filter (App.filteredTasks)
\* ------------------------------------------------------------------------
IsLetter(c) ==
  \E i \in 1..Len(UpperCase) : UpperCase[i] = c \/ LowerCase[i] = c

\* \w
IsWordChar(c) == IsLetter(c) \/ IsDigit(c) \/ c = "_"

ToUpperChar(c) ==
  IF \E i \in 1..Len(LowerCase) : LowerCase[i] = c
  THEN UpperCase[CHOOSE i \in 1..Len(LowerCase) : LowerCase[i] = c]
  ELSE c

\* str.toLowerCase().replace(/\b\w/g, l => l.toUpperCase()): every word
\* character that starts the string or follows a non-word character
toTitleCase(str) ==
  [i \in 1..Len(str) |->
     IF IsWordChar(str[i]) /\ (i = 1 \/ ~IsWordChar(str[i - 1]))
     THEN ToUpperChar(ToLowerChar(str[i]))
     ELSE ToLowerChar(str[i])]

\* Array.from(set).sort(): ascending in code unit order
RECURSIVE SortStrings(_)
SortStrings(S) ==
  IF S = {} THEN << >>
  ELSE LET least == CHOOSE m \in S : \A other \in S \ {m} : StrLess(m, other)
       IN  <<least>> \o SortStrings(S \ {least})

\* the selector list that keeps the values as the sheet spells them
UniqueAsSpelled(list, key) ==
  SortStrings({list[i][key] : i \in {k \in 1..Len(list) : list[k][key] # EmptyStr}})

\* the selector list of the values of field key
UniqueTitled(list, key) ==
  SortStrings({toTitleCase(list[i][key]) :
                 i \in {k \in 1..Len(list) : list[k][key] # EmptyStr}})

uniqueCountries == UniqueTitled(allComplaints, "country")
uniqueComplaintTypes == UniqueTitled(allComplaints, "notes")

\* Object.values(task): every field of the record, each already a string
FieldValues(task) == {task[k] : k \in DOMAIN task}

\* the search that compares without folding the case of the field
matchesSearchCaseSensitive(task, term) ==
  term = EmptyStr \/ \E value \in FieldValues(task) : includes(value, toLowerCase(term))

matchesSearch(task, term) ==
  term = EmptyStr
    \/ \E value \in FieldValues(task) : includes(toLowerCase(value), toLowerCase(term))

matchesStatus(task, filter) == filter = All \/ task.status = filter

matchesCountry(task, selected) ==
  selected = EmptyStr \/ toTitleCase(task.country) = selected

matchesComplaintType(task, selected) ==
  selected = EmptyStr \/ toTitleCase(task.notes) = selected

\* the predicate of sortedTasks.filter
matchesFilters(task) ==
  /\ matchesStatus(task, statusFilter)
  /\ matchesCountry(task, selectedCountry)
  /\ matchesComplaintType(task, selectedComplaintType)
  /\ matchesSearch(task, searchTerm)

\* useMemo over sortedTasks and the four filter settings, for one value of
\* the sorted copy
filteredTasks(sorted) == SelectSeq(sorted, matchesFilters)

\* the render guards: what the component returns
Rendered ==
  IF loading THEN "loading"
  ELSE IF error # NoError THEN "error"
  ELSE "dashboard"

InFlight == {n \in 1..Len(cycles) : cycles[n].pc # "done"}

\* ------------------------------------------------------------------------
\* fetchData
\* ------------------------------------------------------------------------
\* up to the first await: the flag and the two fetches
BeginFetch(isInitialLoad) ==
  /\ Len(cycles) < MaxCycles
  /\ loading' = (IF isInitialLoad THEN TRUE ELSE loading)
  /\ isRefreshing' = (IF isInitialLoad THEN isRefreshing ELSE TRUE)
  /\ cycles' = Append(cycles, [isInitialLoad |-> isInitialLoad, pc |-> "fetch",
                               tasksCsvText |-> EmptyStr, completedCsvText |-> EmptyStr,
                               outcome |-> "pending"])
  /\ UNCHANGED <<allComplaints, error, lastRefresh, sortConfig, expandedRowId,
                 filterVars, pipelineVars>>

\* a catch block that also resets the collection
CatchFinallyResetting(n, c, message) ==
  /\ error' = (IF c.isInitialLoad THEN FailedToFetch(message) ELSE error)
  /\ loading' = (IF c.isInitialLoad THEN FALSE ELSE loading)
  /\ isRefreshing' = FALSE
  /\ cycles' = [cycles EXCEPT ![n] = [c EXCEPT !.pc = "done", !.outcome = "failed"]]
  /\ allComplaints' = << >>
  /\ UNCHANGED lastRefresh

\* a catch block that reports every failure
CatchFinallyAlwaysReporting(n, c, message) ==
  /\ error' = FailedToFetch(message)
  /\ loading' = (IF c.isInitialLoad THEN FALSE ELSE loading)
  /\ isRefreshing' = FALSE
  /\ cycles' = [cycles EXCEPT ![n] = [c EXCEPT !.pc = "done", !.outcome = "failed"]]
  /\ UNCHANGED <<allComplaints, lastRefresh>>

\* the catch and finally blocks of invocation n, whose locals are c
CatchFinally(n, c, message) ==
  /\ error' = (IF c.isInitialLoad THEN FailedToFetch(message) ELSE error)
  /\ loading' = (IF c.isInitialLoad THEN FALSE ELSE loading)
  /\ isRefreshing' = FALSE
  /\ cycles' = [cycles EXCEPT ![n] = [c EXCEPT !.pc = "done", !.outcome = "failed"]]
  /\ UNCHANGED <<allComplaints, lastRefresh>>

\* the content check on the fetched texts
ContentCheckThrows(c) == includes(c.tasksCsvText, SheetNotPublic)

\* the rest of the try block and the finally block of invocation n
ApplyResult(n, c) ==
  /\ allComplaints' = Reconcile(parseGoogleSheetCSV(c.tasksCsvText),
                                parseCompletedGoogleSheetCSV(c.completedCsvText))
  /\ lastRefresh' = lastRefresh + 1
  /\ error' = NoError
  /\ loading' = (IF c.isInitialLoad THEN FALSE ELSE loading)
  /\ isRefreshing' = FALSE
  /\ cycles' = [cycles EXCEPT ![n] = [c EXCEPT !.pc = "done", !.outcome = "ok"]]

\* useEffect(() => { fetchData(true); setInterval(...) }, [fetchData])
Mount ==
  /\ ~mounted
  /\ mounted' = TRUE
  /\ BeginFetch(TRUE)

\* setInterval(() => fetchData(false), 60000)
IntervalTick ==
  /\ mounted
  /\ UNCHANGED mounted
  /\ BeginFetch(FALSE)

\* the Refresh button: rendered with the dashboard, disabled while isRefreshing
ClickRefresh ==
  /\ mounted
  /\ Rendered = "dashboard"
  /\ ~isRefreshing
  /\ UNCHANGED mounted
  /\ BeginFetch(FALSE)

\* Promise.all rejects: one of the two fetches failed
FetchRejected(n) ==
  /\ cycles[n].pc = "fetch"
  /\ CatchFinally(n, cycles[n], "Failed to fetch")
  /\ UNCHANGED <<mounted, sortConfig, expandedRowId, filterVars, pipelineVars>>

\* Promise.all resolves with the two responses; the ok checks follow
FetchResolved(n) ==
  /\ cycles[n].pc = "fetch"
  /\ \E tasksOk, completedOk \in BOOLEAN :
       IF ~tasksOk
       THEN CatchFinally(n, cycles[n], "Network response for tasks was not ok")
       ELSE IF ~completedOk
       THEN CatchFinally(n, cycles[n], "Network response for completed tasks was not ok")
       ELSE /\ cycles' = [cycles EXCEPT ![n].pc = "text1"]
            /\ UNCHANGED <<allComplaints, loading, isRefreshing, error, lastRefresh>>
  /\ UNCHANGED <<mounted, sortConfig, expandedRowId, filterVars, pipelineVars>>

\* await tasksResponse.text()
TasksTextRead(n) ==
  /\ cycles[n].pc = "text1"
  /\ \E text \in TasksResponses :
       cycles' = [cycles EXCEPT ![n].pc = "text2", ![n].tasksCsvText = text]
  /\ UNCHANGED <<allComplaints, loading, isRefreshing, error, lastRefresh,
                 mounted, sortConfig, expandedRowId, filterVars, pipelineVars>>

\* a body read rejects
TextRejected(n) ==
  /\ cycles[n].pc \in {"text1", "text2"}
  /\ CatchFinally(n, cycles[n], "Failed to read body")
  /\ UNCHANGED <<mounted, sortConfig, expandedRowId, filterVars, pipelineVars>>

\* await completedTasksResponse.text(), then the content check, the parsing,
\* the reconciliation and the state updates, without a further await
CompletedTextRead(n) ==
  /\ cycles[n].pc = "text2"
  /\ \E text \in CompletedResponses :
       LET c == [cycles[n] EXCEPT !.completedCsvText = text] IN
       IF ContentCheckThrows(c)
       THEN CatchFinally(n, c, "Please check if the Google Sheet is public")
       ELSE ApplyResult(n, c)
  /\ UNCHANGED <<mounted, sortConfig, expandedRowId, filterVars, pipelineVars>>

Next ==
  \/ Mount
  \/ IntervalTick
  \/ ClickRefresh
  \/ \E n \in 1..Len(cycles) : FetchRejected(n)
  \/ \E n \in 1..Len(cycles) : FetchResolved(n)
  \/ \E n \in 1..Len(cycles) : TasksTextRead(n)
  \/ \E n \in 1..Len(cycles) : TextRejected(n)
  \/ \E n \in 1..Len(cycles) : CompletedTextRead(n)

Spec == Init /\ [][Next]_vars

\* ------------------------------------------------------------------------
\* The ingestion pipeline on its own: lines 388-395 of fetchData applied to
\* a pair of sheet texts
\* ------------------------------------------------------------------------
InitParse ==
  /\ InitApp
  /\ mounted = TRUE
  /\ cycles = << >>
  /\ csv \in [tasks : TasksTextPool, completed : CompletedTextPool]
  /\ parsedTasks = << >>
  /\ parsedCompletedTasks = << >>
  /\ stage = "texts"
  /\ rows = << >>
  /\ dateString = EmptyStr
  /\ parsedDate = NoDate

appVars == <<loading, isRefreshing, error, lastRefresh, sortConfig, expandedRowId,
             filterVars, mounted, cycles>>

\* const parsedTasks = parseGoogleSheetCSV(tasksCsvText)
ParseTasks ==
  /\ stage = "texts"
  /\ parsedTasks' = parseGoogleSheetCSV(csv.tasks)
  /\ stage' = "tasks"
  /\ UNCHANGED <<csv, parsedCompletedTasks, allComplaints, appVars, unitVars>>

\* const parsedCompletedTasks = parseCompletedGoogleSheetCSV(completedCsvText)
ParseCompleted ==
  /\ stage = "tasks"
  /\ parsedCompletedTasks' = parseCompletedGoogleSheetCSV(csv.completed)
  /\ stage' = "completed"
  /\ UNCHANGED <<csv, parsedTasks, allComplaints, appVars, unitVars>>

\* setAllComplaints([...parsedTasks, ...uniqueCompletedTasks])
Combine ==
  /\ stage = "completed"
  /\ allComplaints' = Reconcile(parsedTasks, parsedCompletedTasks)
  /\ stage' = "combined"
  /\ UNCHANGED <<csv, parsedTasks, parsedCompletedTasks, appVars, unitVars>>

NextParse == ParseTasks \/ ParseCompleted \/ Combine

SpecParse == InitParse /\ [][NextParse]_vars

\* ------------------------------------------------------------------------
\* The sorted view over a loaded collection
\* ------------------------------------------------------------------------
SortLine1 == <<"1","0",",","0","1","/","0","1","/","2","4">>
SortLine2 == <<"2",",","3","1","/","0","2","/","2","4">>
SortLine3 == <<"a","b","c">>
SortLine4 == <<"7","x",",","1","5","/","0","6","/","2","0","2","3">>
SortLine5 == <<"1","0",",","1","/","1","/","2","0","2","4",",",",","b">>
SortLine6 == <<"x","y","z",",","0","2","/","0","1","/","2","4">>

RecordPool ==
  {TaskRecord(CleanValues(line)) :
     line \in {SortLine1, SortLine2, SortLine3, SortLine4, SortLine5, SortLine6}}

InitSort ==
  /\ allComplaints \in SeqsUpTo(RecordPool, MaxRecords)
  /\ loading = FALSE
  /\ isRefreshing = FALSE
  /\ error = NoError
  /\ searchTerm = EmptyStr
  /\ selectedCountry = EmptyStr
  /\ selectedComplaintType = EmptyStr
  /\ sortConfig = [key |-> "id", order |-> "asc"]
  /\ lastRefresh = 1
  /\ expandedRowId = NoRow
  /\ statusFilter = All
  /\ mounted = TRUE
  /\ cycles = << >>
  /\ csv = [tasks |-> EmptyStr, completed |-> EmptyStr]
  /\ parsedTasks = << >>
  /\ parsedCompletedTasks = << >>
  /\ stage = "idle"
  /\ rows = << >>
  /\ dateString = EmptyStr
  /\ parsedDate = NoDate

\* a requestSort that leaves the expanded row open
requestSortKeepingRow(key) ==
  LET order == IF sortConfig.key = key /\ sortConfig.order = "asc" THEN "desc" ELSE "asc"
  IN  /\ sortConfig' = [key |-> key, order |-> order]
      /\ UNCHANGED <<allComplaints, loading, isRefreshing, error, lastRefresh, filterVars,
                     mounted, cycles, pipelineVars, expandedRowId>>

requestSort(key) ==
  LET order == IF sortConfig.key = key /\ sortConfig.order = "asc" THEN "desc" ELSE "asc"
  IN  /\ sortConfig' = [key |-> key, order |-> order]
      /\ expandedRowId' = NoRow
      /\ UNCHANGED <<allComplaints, loading, isRefreshing, error, lastRefresh, filterVars,
                     mounted, cycles, pipelineVars>>

NextSort == \E key \in HeaderKeys : requestSort(key)

SpecSort == InitSort /\ [][NextSort]_vars

\* ------------------------------------------------------------------------
\* The dashboard controls over a loaded collection
\* ------------------------------------------------------------------------
ViewLine1 == <<"1",",","0","1","/","0","1","/","2","4",",",",","C","o","m","p","l","e","t","e",",",",",",","A","l",",",",",",","i","n","d","i","a",",",",",",",",",",","P","a","c","k","a","g","i","n","g"," ","D","e","f","e","c","t",",","M","i","x","e","r","-","9","0","0">>
ViewLine2 == <<"2",",","0","5","/","0","1","/","2","4",",",",","P","e","n","d","i","n","g",",",",",",","B","o",",",",",",","I","N","D","I","A",",",",",",",",",",","p","a","c","k","a","g","i","n","g"," ","d","e","f","e","c","t",",","O","v","e","n">>
ViewLine3 == <<"3",",",",",",",",",",",",","C","y",",",",",",","g","u","i","n","e","a","-","b","i","s","s","a","u",",",",",",",",",",",",","M","I","X","E","R"," ","2">>
ViewLine4 == <<"4",",",",",",","D","o","n","e",",",",",",","D","i">>

ViewRecord(line) == TaskRecord(CleanValues(line))

ViewCollections ==
  { <<ViewRecord(ViewLine1), ViewRecord(ViewLine2), ViewRecord(ViewLine3), ViewRecord(ViewLine4)>>,
    <<ViewRecord(ViewLine2), ViewRecord(ViewLine1), ViewRecord(ViewLine2)>>,
    <<ViewRecord(ViewLine4)>> }

\* what the user types into the search box
SearchTerms == {EmptyStr, <<"m","i","x","e","r">>, <<"C","L","O","S">>}

\* the column headers the user clicks in this part
ViewSortKeys == {"id", "plannedDate", "country"}

Range(list) == {list[i] : i \in 1..Len(list)}

InitView ==
  /\ allComplaints \in ViewCollections
  /\ loading = FALSE
  /\ isRefreshing = FALSE
  /\ error = NoError
  /\ searchTerm = EmptyStr
  /\ selectedCountry = EmptyStr
  /\ selectedComplaintType = EmptyStr
  /\ sortConfig = [key |-> "id", order |-> "asc"]
  /\ lastRefresh = 1
  /\ expandedRowId = NoRow
  /\ statusFilter = All
  /\ mounted = TRUE
  /\ cycles = << >>
  /\ csv = [tasks |-> EmptyStr, completed |-> EmptyStr]
  /\ parsedTasks = << >>
  /\ parsedCompletedTasks = << >>
  /\ stage = "idle"
  /\ rows = << >>
  /\ dateString = EmptyStr
  /\ parsedDate = NoDate

\* what no control of the dashboard touches
dataVars == <<allComplaints, loading, isRefreshing, error, lastRefresh, mounted, cycles,
              pipelineVars>>

onStatusFilterChange(filter) ==
  /\ Rendered = "dashboard"
  /\ statusFilter' = filter
  /\ expandedRowId' = NoRow
  /\ UNCHANGED <<searchTerm, selectedCountry, selectedComplaintType, sortConfig, dataVars>>

onSearchChange(value) ==
  /\ Rendered = "dashboard"
  /\ searchTerm' = value
  /\ expandedRowId' = NoRow
  /\ UNCHANGED <<statusFilter, selectedCountry, selectedComplaintType, sortConfig, dataVars>>

onCountryChange(value) ==
  /\ Rendered = "dashboard"
  /\ selectedCountry' = value
  /\ expandedRowId' = NoRow
  /\ UNCHANGED <<statusFilter, searchTerm, selectedComplaintType, sortConfig, dataVars>>

onComplaintTypeChange(value) ==
  /\ Rendered = "dashboard"
  /\ selectedComplaintType' = value
  /\ expandedRowId' = NoRow
  /\ UNCHANGED <<statusFilter, searchTerm, selectedCountry, sortConfig, dataVars>>

handleClearFilters ==
  /\ Rendered = "dashboard"
  /\ searchTerm' = EmptyStr
  /\ selectedCountry' = EmptyStr
  /\ selectedComplaintType' = EmptyStr
  /\ expandedRowId' = NoRow
  /\ UNCHANGED <<statusFilter, sortConfig, dataVars>>

\* the Clear Filters button, disabled while no filter of the three is set
clickClearFilters ==
  /\ ~(searchTerm = EmptyStr /\ selectedCountry = EmptyStr /\ selectedComplaintType = EmptyStr)
  /\ handleClearFilters

\* a click on a row of the table: the rows are the records of filteredTasks
onRowClick(task) ==
  /\ Rendered = "dashboard"
  /\ matchesFilters(task)
  /\ expandedRowId' = IF expandedRowId = task.id THEN NoRow ELSE task.id
  /\ UNCHANGED <<filterVars, sortConfig, dataVars>>

clickHeader(key) ==
  /\ Rendered = "dashboard"
  /\ requestSort(key)

NextView ==
  \/ \E filter \in {All, InProgress, Closed} : onStatusFilterChange(filter)
  \/ \E value \in SearchTerms : onSearchChange(value)
  \/ \E value \in {EmptyStr} \cup Range(uniqueCountries) : onCountryChange(value)
  \/ \E value \in {EmptyStr} \cup Range(uniqueComplaintTypes) : onComplaintTypeChange(value)
  \/ clickClearFilters
  \/ \E task \in Range(allComplaints) : onRowClick(task)
  \/ \E key \in ViewSortKeys : clickHeader(key)

SpecView == InitView /\ [][NextView]_vars

\* ------------------------------------------------------------------------
\* parseDateString over date strings a sheet cell can hold
\* ------------------------------------------------------------------------
DayParts == {<<"0","1">>, <<"2","9">>, <<"3","1">>, <<"1","x">>}
MonthParts == {<<"0","2">>, <<"2">>, <<"1","2">>, <<"1","3">>}
YearParts == {<<"2","4">>, <<"2","3">>, <<"2","0","2","4">>, <<"x">>}

DateStrings ==
  {Join(<<d, m, y>>, Slash) : d \in DayParts, m \in MonthParts, y \in YearParts}
    \cup {EmptyStr, <<"0","1","/","0","2">>, <<"0","1","/","0","2","/","2","4","/","5">>, <<"0","1","-","0","2","-","2","4">>, <<"/","/">>, <<"0","1","/"," ","2","/","2","4">>}

InitDate ==
  /\ allComplaints = << >>
  /\ loading = FALSE
  /\ isRefreshing = FALSE
  /\ error = NoError
  /\ searchTerm = EmptyStr
  /\ selectedCountry = EmptyStr
  /\ selectedComplaintType = EmptyStr
  /\ sortConfig = [key |-> "id", order |-> "asc"]
  /\ lastRefresh = 1
  /\ expandedRowId = NoRow
  /\ statusFilter = All
  /\ mounted = TRUE
  /\ cycles = << >>
  /\ csv = [tasks |-> EmptyStr, completed |-> EmptyStr]
  /\ parsedTasks = << >>
  /\ parsedCompletedTasks = << >>
  /\ stage = "dateString"
  /\ rows = << >>
  /\ dateString \in DateStrings
  /\ parsedDate = NoDate

\* one call parseDateString(dateString)
ParseDate ==
  /\ stage = "dateString"
  /\ parsedDate' = parseDateString(dateString)
  /\ stage' = "parsedDate"
  /\ UNCHANGED <<allComplaints, appVars, csv, parsedTasks, parsedCompletedTasks, rows,
                 dateString>>

NextDate == ParseDate

SpecDate == InitDate /\ [][NextDate]_vars

\* ------------------------------------------------------------------------
\* The row parser over sheet texts
\* ------------------------------------------------------------------------
RowLine1 == <<"1",",","a",",","b">>
RowLine2 == <<"2",",","\"","a",",","b","\"",",","c">>
RowLine3 == <<" ","\"","3","\""," ",","," ","x"," ">>
RowLine4 == <<"4",",","\"","s","a","y"," ","\"","\"","h","i","\"","\"",","," ","o","k","\"",",","y">>
\* a cell holding a line break: the export writes it as two lines
RowLine5 == <<"7",",","\"","f","i","r","s","t">>
RowLine6 == <<"s","e","c","o","n","d","\"",",","x">>

RowLinePool == {RowLine1, RowLine2, RowLine3, RowLine4, RowLine5, RowLine6}

RowsTextPool == {SheetText(TasksHeader, ls) : ls \in SeqsUpTo(RowLinePool, MaxTaskLines)}

InitRows ==
  /\ InitApp
  /\ mounted = TRUE
  /\ cycles = << >>
  /\ csv \in [tasks : RowsTextPool, completed : {EmptyStr}]
  /\ parsedTasks = << >>
  /\ parsedCompletedTasks = << >>
  /\ stage = "text"
  /\ rows = << >>
  /\ dateString = EmptyStr
  /\ parsedDate = NoDate

\* the rows of one call of the parser
SplitRows ==
  /\ stage = "text"
  /\ rows' = ParseRows(csv.tasks)
  /\ stage' = "rows"
  /\ UNCHANGED <<allComplaints, appVars, csv, parsedTasks, parsedCompletedTasks,
                 dateString, parsedDate>>

\* the rows of a second call on the same text
SplitRowsAgain ==
  /\ stage = "rows"
  /\ rows' = ParseRows(csv.tasks)
  /\ stage' = "rowsAgain"
  /\ UNCHANGED <<allComplaints, appVars, csv, parsedTasks, parsedCompletedTasks,
                 dateString, parsedDate>>

NextRows == SplitRows \/ SplitRowsAgain

SpecRows == InitRows /\ [][NextRows]_vars

\* ------------------------------------------------------------------------
\* Properties
\* ------------------------------------------------------------------------
Ids(list) == [i \in 1..Len(list) |-> list[i].id]

\* invocation n finishes in this step
Finishes(n) == cycles[n].pc # "done" /\ cycles'[n].pc = "done"
Fails(n) == Finishes(n) /\ cycles'[n].outcome = "failed"
Succeeds(n) == Finishes(n) /\ cycles'[n].outcome = "ok"

\* C1: a refresh cycle that fails leaves allComplaints as it was, and
\* allComplaints only ever changes to the full reconciled result of a cycle
\* that succeeds in that step.
FailedCycleKeepsCollection ==
  [][ /\ \A n \in 1..Len(cycles) : Fails(n) => allComplaints' = allComplaints
      /\ allComplaints' # allComplaints =>
           \E n \in 1..Len(cycles) :
             /\ Succeeds(n)
             /\ allComplaints' =
                  Reconcile(parseGoogleSheetCSV(cycles'[n].tasksCsvText),
                            parseCompletedGoogleSheetCSV(cycles'[n].completedCsvText))
    ]_vars

\* a cycle has failed after an earlier one had loaded a non-empty collection
FailedAfterLoaded ==
  /\ allComplaints # << >>
  /\ \E m, n \in 1..Len(cycles) :
       /\ m < n
       /\ cycles[m].outcome = "ok"
       /\ cycles[n].outcome = "failed"
       /\ cycles[n].tasksCsvText = ErrorPageText

\* C2: at most one fetchData cycle is in flight in every reachable state.
AtMostOneCycleInFlight == Cardinality(InFlight) <= 1

\* C3: after a successful reconciliation no two records of allComplaints
\* have the same id.
IdsUnique ==
  stage = "combined" =>
    \A i, j \in 1..Len(allComplaints) :
      i # j => allComplaints[i].id # allComplaints[j].id

\* C4: the reconciled collection is parsedTasks in its order followed by
\* exactly the records of parsedCompletedTasks whose id is no id of
\* parsedTasks, in their order.
PrimaryThenUnmatchedSecondary ==
  stage = "combined" =>
    LET nP == Len(parsedTasks)
        Unmatched(r) == \A i \in 1..nP : parsedTasks[i].id # r.id
    IN  /\ Len(allComplaints) >= nP
        /\ \A i \in 1..nP : allComplaints[i] = parsedTasks[i]
        /\ SubSeq(allComplaints, nP + 1, Len(allComplaints))
             = SelectSeq(parsedCompletedTasks, Unmatched)

\* a reconciliation that keeps a secondary record and drops another
SecondaryPartlyDropped ==
  /\ stage = "combined"
  /\ parsedTasks # << >>
  /\ Len(allComplaints) > Len(parsedTasks)
  /\ Len(allComplaints) < Len(parsedTasks) + Len(parsedCompletedTasks)

StatusFollowsStep(r) ==
  /\ r.status \in {Closed, InProgress}
  /\ r.status = Closed <=> includes(toLowerCase(r.step), <<"c","o","m","p","l","e","t","e">>)

\* C5 as stated: for every record of the unified collection status is closed
\* exactly when step contains "complete" in any letter case.
StatusDeterminedByStep ==
  stage = "combined" =>
    \A i \in 1..Len(allComplaints) : StatusFollowsStep(allComplaints[i])

\* C5 amended: the records of the primary mapping have status closed exactly
\* when step contains "complete" in any letter case; the records of the
\* secondary mapping have step "Closed" and status closed.
StatusDeterminedByStepInPrimary ==
  stage = "combined" =>
    \A i \in 1..Len(allComplaints) :
      IF i <= Len(parsedTasks)
      THEN StatusFollowsStep(allComplaints[i])
      ELSE allComplaints[i].step = <<"C","l","o","s","e","d">> /\ allComplaints[i].status = Closed

\* a collection with a primary record closed by an upper-case step, a primary
\* record in progress and a secondary record
MixedStatuses ==
  /\ stage = "combined"
  /\ Len(allComplaints) > Len(parsedTasks)
  /\ \E i, j \in 1..Len(parsedTasks) :
       /\ allComplaints[i].step = <<"C","O","M","P","L","E","T","E","D">>
       /\ allComplaints[i].status = Closed
       /\ allComplaints[j].status = InProgress

\* field 0 of every data line, trimmed and stripped of its quotes, where it
\* is not empty
NonEmptyField0(csvText) ==
  LET dataLines == DataLines(csvText)
      field0 == [i \in 1..Len(dataLines) |-> CleanValues(dataLines[i])[1]]
  IN  SelectSeq(field0, LAMBDA f : f # EmptyStr)

\* C6: each mapper yields one record per data row with a non-empty field 0,
\* in row order, and none for the other rows; no record of the unified
\* collection has an empty id.
EmptyIdRowsDiscarded ==
  /\ stage \in {"tasks", "completed", "combined"} =>
       Ids(parsedTasks) = NonEmptyField0(csv.tasks)
  /\ stage \in {"completed", "combined"} =>
       Ids(parsedCompletedTasks) = NonEmptyField0(csv.completed)
  /\ \A i \in 1..Len(allComplaints) : allComplaints[i].id # EmptyStr

\* both texts hold a row with an empty field 0 next to a row that is kept
RowsDiscardedInBoth ==
  /\ stage = "combined"
  /\ parsedTasks # << >>
  /\ parsedCompletedTasks # << >>
  /\ Len(parsedTasks) < Len(DataLines(csv.tasks))
  /\ Len(parsedCompletedTasks) < Len(DataLines(csv.completed))

\* C7: sorted by plannedDate, in either order, no record without a parseable
\* date precedes a record with one, and the parseable dates are in ascending
\* (asc) or descending (desc) order of their instants.
UnparseableDatesLast ==
  sortConfig.key = "plannedDate" =>
    \A sorted \in sortedTasks :
      \A i, j \in 1..Len(sorted) :
        i < j =>
          LET di == parseDateString(sorted[i].plannedDate)
              dj == parseDateString(sorted[j].plannedDate)
          IN  /\ ~(~di.isDate /\ dj.isDate)
              /\ (di.isDate /\ dj.isDate) =>
                   IF sortConfig.order = "asc" THEN di.time <= dj.time
                   ELSE di.time >= dj.time

\* a descending date sort over two different dates and a missing one
DescendingDatesWithMissing ==
  /\ sortConfig = [key |-> "plannedDate", order |-> "desc"]
  /\ \E sorted \in sortedTasks :
       /\ Len(sorted) = 3
       /\ parseDateString(sorted[1].plannedDate).isDate
       /\ parseDateString(sorted[2].plannedDate).isDate
       /\ parseDateString(sorted[1].plannedDate).time
            > parseDateString(sorted[2].plannedDate).time
       /\ ~parseDateString(sorted[3].plannedDate).isDate

\* C8: sorted by id, asc puts the ids with a leading integer in
\* non-decreasing numeric order before every id without one; desc puts the
\* ids without a leading integer first and the others after them in
\* non-increasing numeric order; ids 10, 2, abc give 2, 10, abc and
\* abc, 10, 2.
IdsSortNumerically ==
  sortConfig.key = "id" =>
    \A sorted \in sortedTasks :
      /\ \A i, j \in 1..Len(sorted) :
           i < j =>
             LET ni == parseInt(sorted[i].id)
                 nj == parseInt(sorted[j].id)
             IN  IF sortConfig.order = "asc"
                 THEN /\ ~(ni.nan /\ ~nj.nan)
                      /\ (~ni.nan /\ ~nj.nan) => ni.val <= nj.val
                 ELSE /\ ~(~ni.nan /\ nj.nan)
                      /\ (~ni.nan /\ ~nj.nan) => ni.val >= nj.val
      /\ Ids(allComplaints) = <<<<"1","0">>, <<"2">>, <<"a","b","c">>>> =>
           Ids(sorted) = IF sortConfig.order = "asc"
                         THEN <<<<"2">>, <<"1","0">>, <<"a","b","c">>>>
                         ELSE <<<<"a","b","c">>, <<"1","0">>, <<"2">>>>

\* the ids 10, 2, abc sorted descending
ExampleIdsDescending ==
  /\ sortConfig = [key |-> "id", order |-> "desc"]
  /\ Ids(allComplaints) = <<<<"1","0">>, <<"2">>, <<"a","b","c">>>>
  /\ \E sorted \in sortedTasks : Ids(sorted) = <<<<"a","b","c">>, <<"1","0">>, <<"2">>>>

\* C9: a cycle in which the primary or the secondary response carries the
\* error text in place of CSV fails, so it never finishes successfully.
ErrorTextFailsCycle ==
  \A n \in 1..Len(cycles) :
    ( /\ cycles[n].pc = "done"
      /\ \/ includes(cycles[n].tasksCsvText, SheetNotPublic)
         \/ includes(cycles[n].completedCsvText, SheetNotPublic) )
    => cycles[n].outcome = "failed"

\* C10: a failed initial load sets the error state, which is then what is
\* rendered; while the error state is set the dashboard is not rendered; a
\* failed background refresh changes neither the error state nor the
\* collection; a successful cycle clears the error state.
ErrorOnlyFromInitialLoad ==
  [][ /\ \A n \in 1..Len(cycles) :
           /\ (Fails(n) /\ cycles[n].isInitialLoad) =>
                error' # NoError /\ Rendered' = "error"
           /\ (Fails(n) /\ ~cycles[n].isInitialLoad) =>
                error' = error /\ allComplaints' = allComplaints
           /\ Succeeds(n) => error' = NoError
      /\ error' # NoError => Rendered' # "dashboard"
    ]_vars

\* the initial load has failed, a background refresh has failed after it and
\* the error of the initial load is what is rendered
BackgroundFailureUnderError ==
  /\ Len(cycles) >= 2
  /\ cycles[1].isInitialLoad /\ cycles[1].outcome = "failed"
  /\ \E n \in 2..Len(cycles) : cycles[n].outcome = "failed"
  /\ error # NoError
  /\ Rendered = "error"

\* the conjunction of the four filter conditions, for one record
Selected(task) ==
  /\ statusFilter = All \/ task.status = statusFilter
  /\ selectedCountry = EmptyStr \/ selectedCountry = toTitleCase(task.country)
  /\ selectedComplaintType = EmptyStr \/ selectedComplaintType = toTitleCase(task.notes)
  /\ searchTerm = EmptyStr
       \/ \E k \in DOMAIN task : includes(toLowerCase(task[k]), toLowerCase(searchTerm))

\* C11: the displayed view is the subsequence of the sorted collection made
\* of exactly the records that satisfy the four filter conditions (status,
\* title-cased country, title-cased notes, case-insensitive search over every
\* field), in the order the sorted collection has them.
FilteredIsSelectedSubsequence ==
  \A sorted \in sortedTasks :
    LET kept == {k \in 1..Len(sorted) : Selected(sorted[k])}
    IN  /\ Len(filteredTasks(sorted)) = Cardinality(kept)
        /\ \A i \in 1..Len(filteredTasks(sorted)) :
             \E k \in kept :
               /\ Cardinality({j \in kept : j <= k}) = i
               /\ filteredTasks(sorted)[i] = sorted[k]

\* the search for mixer over four records sorted by descending id shows the
\* records 3 (equipment MIXER 2) and 1 (equipment Mixer-900), in that order
MixerSearchKeepsSortOrder ==
  /\ searchTerm = <<"m","i","x","e","r">>
  /\ sortConfig = [key |-> "id", order |-> "desc"]
  /\ \E sorted \in sortedTasks :
       /\ Len(sorted) = 4
       /\ Ids(filteredTasks(sorted)) = <<<<"3">>, <<"1">>>>
       /\ filteredTasks(sorted)[2].equipmentName = <<"M","i","x","e","r","-","9","0","0">>

\* the filter condition the selector of field key applies with entry chosen
SelectorMatches(task, key, entry) ==
  IF key = "country" THEN matchesCountry(task, entry)
  ELSE matchesComplaintType(task, entry)

SelectorConsistent(list, key) ==
  LET tasks == Range(allComplaints)
      valued == {task \in tasks : task[key] # EmptyStr}
  IN  /\ \A i, j \in 1..Len(list) : i < j => StrLess(list[i], list[j])
      /\ Range(list) = {toTitleCase(task[key]) : task \in valued}
      /\ \A entry \in Range(list) : \E task \in tasks : SelectorMatches(task, key, entry)
      /\ \A task \in valued :
           Cardinality({i \in 1..Len(list) : SelectorMatches(task, key, list[i])}) = 1
      /\ \A a, b \in valued :
           toLowerCase(a[key]) = toLowerCase(b[key]) =>
             \E entry \in Range(list) :
               SelectorMatches(a, key, entry) /\ SelectorMatches(b, key, entry)

\* C12: each selector list is strictly ascending (so sorted and free of
\* duplicates), holds exactly the title-cased non-empty values of its field,
\* and agrees with the filter: every entry selects some record, every record
\* with a value is selected by exactly one entry, and records whose values
\* differ only in letter case are selected by the same entry.
SelectorListsConsistent ==
  /\ SelectorConsistent(uniqueCountries, "country")
  /\ SelectorConsistent(uniqueComplaintTypes, "notes")

\* india and INDIA give the one entry India, Packaging Defect and packaging
\* defect the one entry Packaging Defect, and choosing it shows both records
CaseVariantsShareEntry ==
  /\ uniqueCountries = <<<<"G","u","i","n","e","a","-","B","i","s","s","a","u">>, <<"I","n","d","i","a">>>>
  /\ uniqueComplaintTypes = <<<<"N","/","A">>, <<"P","a","c","k","a","g","i","n","g"," ","D","e","f","e","c","t">>>>
  /\ selectedComplaintType = <<"P","a","c","k","a","g","i","n","g"," ","D","e","f","e","c","t">>
  /\ \E sorted \in sortedTasks :
       /\ Len(filteredTasks(sorted)) = 2
       /\ filteredTasks(sorted)[1].notes # filteredTasks(sorted)[2].notes

\* a part made of decimal digits only
IsNumeric(part) == part # EmptyStr /\ \A i \in 1..Len(part) : IsDigit(part[i])

IsLeapYear(year) == year % 4 = 0 /\ (year % 100 # 0 \/ year % 400 = 0)

DaysInMonth(month, year) ==
  IF month = 2 THEN (IF IsLeapYear(year) THEN 29 ELSE 28)
  ELSE IF month \in {4, 6, 9, 11} THEN 30
  ELSE 31

\* C13: parseDateString returns no date when the input does not split on /
\* into exactly three parts, when a part is not numeric, or when day, month
\* and year (plus 2000 below 100) name no calendar date; otherwise it
\* returns the date with that day, month and year.
OnlyNumericPartsGiveDate ==
  stage = "parsedDate" =>
    LET parts == split(dateString, Slash) IN
    IF Len(parts) # 3 \/ \E i \in 1..Len(parts) : ~IsNumeric(parts[i])
    THEN parsedDate = NoDate
    ELSE
      LET day == DigitsValue(parts[1])
          month == DigitsValue(parts[2])
          given == DigitsValue(parts[3])
          year == IF given < 100 THEN given + 2000 ELSE given
      IN  IF month \in 1..12 /\ day \in 1..DaysInMonth(month, year)
          THEN /\ parsedDate.isDate
               /\ CivilFromDay(parsedDate.time) = [year |-> year, month |-> month - 1, date |-> day]
          ELSE parsedDate = NoDate

\* position i of line lies inside a balanced pair of double quotes: the
\* quotes pair up from the left, and i lies between the two of a pair
Enclosed(line, i) ==
  /\ CountQuotes(SubSeq(line, 1, i - 1)) % 2 = 1
  /\ \E j \in (i + 1)..Len(line) : line[j] = Quote

\* the commas of line that are not enclosed in a balanced pair of quotes
OpenCommas(line) == {i \in 1..Len(line) : line[i] = Comma /\ ~Enclosed(line, i)}

\* line cut at exactly the positions of cuts
CutAt(line, cuts) ==
  LET nth(k) == IF k = 0 THEN 0
                ELSE IF k > Cardinality(cuts) THEN Len(line) + 1
                ELSE CHOOSE p \in cuts : Cardinality({q \in cuts : q <= p}) = k
  IN  [k \in 1..(Cardinality(cuts) + 1) |-> SubSeq(line, nth(k - 1) + 1, nth(k) - 1)]

\* C14: the rows are those of the lines after the header, in line order;
\* each line is cut into fields at exactly its commas that are not enclosed
\* in a balanced pair of double quotes; a second parse of the same text gives
\* the same rows.
RowsCutAtOpenCommas ==
  stage \in {"rows", "rowsAgain"} =>
    LET lines == split(trim(csv.tasks), Newline) IN
    /\ Len(rows) = Len(lines) - 1
    /\ \A i \in 1..Len(rows) :
         LET fields == CutAt(lines[i + 1], OpenCommas(lines[i + 1]))
         IN  rows[i] = [k \in 1..Len(fields) |-> StripQuotes(trim(fields[k]))]

\* C15: every requestSort call (the steps that change sortConfig) sets the
\* requested key with order desc when that key was sorted ascending and with
\* order asc otherwise, clears expandedRowId and changes neither the
\* collection nor a filter setting.
RequestSortTogglesAndClears ==
  [][ sortConfig' # sortConfig =>
        /\ sortConfig'.order =
             (IF sortConfig'.key = sortConfig.key /\ sortConfig.order = "asc"
              THEN "desc" ELSE "asc")
        /\ expandedRowId' = NoRow
        /\ allComplaints' = allComplaints
        /\ filterVars' = filterVars
    ]_vars

\* the country column was requested twice in a row while a search, a status
\* and a country filter were set: it is sorted descending, the filters are
\* as they were and no row is expanded
CountryDescendingUnderFilters ==
  /\ sortConfig = [key |-> "country", order |-> "desc"]
  /\ searchTerm = <<"m","i","x","e","r">>
  /\ statusFilter = Closed
  /\ selectedCountry = <<"I","n","d","i","a">>
  /\ Len(allComplaints) = 4
  /\ expandedRowId = NoRow

\* C16: while the error state is set no cycle has succeeded: a collection
\* that was loaded is never hidden behind the error of a cycle that failed
\* after it.
NoErrorAfterSuccess ==
  error # NoError => \A n \in 1..Len(cycles) : cycles[n].outcome # "ok"

====
